---------------------------- MODULE Spec2Model ----------------------------
(***************************************************************************)
(* Model of gmd_converter.py: the binary <-> JSON codec of a game's        *)
(* "global mod data" file.                                                 *)
(*                                                                         *)
(* Representation                                                          *)
(*   str    a sequence of Unicode code points (len(s) = Len(s))            *)
(*   bytes  a sequence of integers 0..255                                  *)
(*   float  an integer h standing for the double h/2 (the doubles with at  *)
(*          most one fractional bit and magnitude below 2^29); any other   *)
(*          double is kept by its 8 bytes / its text ("raw")               *)
(*   dict   a sequence of <<key, value>> pairs with pairwise distinct      *)
(*          keys, in insertion order                                       *)
(*   file   [data |-> bytes, pos |-> offset of the cursor, log |-> ...]     *)
(***************************************************************************)
EXTENDS Integers, Sequences, FiniteSets, TLC

(***************************************************************************)
(* Python values.  One record shape for every type, so that values of      *)
(* different types can be compared.                                        *)
(***************************************************************************)
PyStr(s)   == [t |-> "str",   s |-> s,    n |-> 0, b |-> FALSE, d |-> <<>>]
PyFloat(h) == [t |-> "float", s |-> <<>>, n |-> h, b |-> FALSE, d |-> <<>>]
PyFloatRaw(raw) == [t |-> "float", s |-> raw, n |-> 0, b |-> FALSE, d |-> <<>>]
PyInt(i)   == [t |-> "int",   s |-> <<>>, n |-> i, b |-> FALSE, d |-> <<>>]
PyBool(b)  == [t |-> "bool",  s |-> <<>>, n |-> 0, b |-> b,     d |-> <<>>]
PyDict(d)  == [t |-> "dict",  s |-> <<>>, n |-> 0, b |-> FALSE, d |-> d]

\* the only element of a one-element set.  The({e(x) : x \in {v}}) is e with
\* x bound to the value of v, evaluated once.
The(S) == CHOOSE v \in S : TRUE

\* dict operations: key in d, d[key], d[key] = value (an existing key keeps
\* its position), d.pop(key)
DictHas(d, k) == \E i \in 1..Len(d) : d[i][1] = k
DictGet(d, k) == d[CHOOSE i \in 1..Len(d) : d[i][1] = k][2]
DictSet(d, k, v) ==
    IF DictHas(d, k)
    THEN [i \in 1..Len(d) |-> IF d[i][1] = k THEN <<k, v>> ELSE d[i]]
    ELSE Append(d, <<k, v>>)
DictPop(d, k) == SelectSeq(d, LAMBDA p : p[1] /= k)

(***************************************************************************)
(* Text: the literals of the source as code-point sequences.               *)
(***************************************************************************)
\* "_number: "
JSON_NUMBER_PREFIX == <<95, 110, 117, 109, 98, 101, 114, 58, 32>>
\* "_string: "
JSON_STRING_PREFIX == <<95, 115, 116, 114, 105, 110, 103, 58, 32>>
\* "__WORLD_VERSION"
JSON_WORLD_VERSION_KEY ==
    <<95, 95, 87, 79, 82, 76, 68, 95, 86, 69, 82, 83, 73, 79, 78>>
SUPPORTED_VERSIONS == {195}

StartsWith(s, p) == Len(s) >= Len(p) /\ SubSeq(s, 1, Len(p)) = p
RemovePrefix(s, p) == IF StartsWith(s, p) THEN SubSeq(s, Len(p) + 1, Len(s)) ELSE s

RECURSIVE Digits(_)
\* the decimal digits of a natural number
Digits(k) == IF k < 10 THEN <<48 + k>> ELSE Append(Digits(k \div 10), 48 + (k % 10))

Abs(x) == IF x < 0 THEN -x ELSE x

\* str(x) of a float x = h/2: "3.0", "-1.5"
FloatRepr(h) ==
    (IF h < 0 THEN <<45>> ELSE <<>>) \o Digits(Abs(h) \div 2) \o <<46>>
        \o (IF Abs(h) % 2 = 1 THEN <<53>> ELSE <<48>>)
\* str(i) of an int
IntRepr(i) == (IF i < 0 THEN <<45>> ELSE <<>>) \o Digits(Abs(i))

IsDigit(c) == c >= 48 /\ c <= 57
AllDigits(s) == Len(s) > 0 /\ \A i \in 1..Len(s) : IsDigit(s[i])
RECURSIVE DigitsVal(_)
DigitsVal(s) == IF s = <<>> THEN 0
                ELSE 10 * DigitsVal(SubSeq(s, 1, Len(s) - 1)) + (s[Len(s)] - 48)

\* float(text), for the texts  [-]digits  and  [-]digits.digits ; every other
\* text of the model's inputs is not a number and raises ValueError.
ParseFloat(text) ==
    LET neg  == Len(text) > 0 /\ text[1] = 45
        body == IF neg THEN Tail(text) ELSE text
        dots == {i \in 1..Len(body) : body[i] = 46}
        ip   == IF dots = {} THEN body
                ELSE SubSeq(body, 1, (CHOOSE i \in dots : TRUE) - 1)
        fp   == IF dots = {} THEN <<48>>
                ELSE SubSeq(body, (CHOOSE i \in dots : TRUE) + 1, Len(body))
        wellformed == Cardinality(dots) <= 1 /\ AllDigits(ip) /\ AllDigits(fp)
                      /\ Len(ip) <= 8
        zeros(s) == \A i \in 1..Len(s) : s[i] = 48
        mag  == 2 * DigitsVal(ip) + (IF fp[1] = 53 THEN 1 ELSE 0)
        exact == (zeros(fp) \/ (fp[1] = 53 /\ zeros(Tail(fp))))
                 /\ ~(neg /\ mag = 0)
    IN  IF ~wellformed THEN [err |-> "ValueError", v |-> PyFloat(0)]
        ELSE IF exact THEN [err |-> "", v |-> PyFloat(IF neg THEN -mag ELSE mag)]
        ELSE [err |-> "", v |-> PyFloatRaw(text)]

(***************************************************************************)
(* Bytes.                                                                  *)
(***************************************************************************)
RECURSIVE ToBytes(_, _)
\* num.to_bytes(k, 'big', signed=False), for 0 <= num < 256^k
ToBytes(num, k) == IF k = 0 THEN <<>>
                   ELSE Append(ToBytes(num \div 256, k - 1), num % 256)
RECURSIVE FromBytes(_)
\* int.from_bytes(bs, 'big', signed=False); b'' gives 0
FromBytes(bs) == IF bs = <<>> THEN 0
                 ELSE 256 * FromBytes(SubSeq(bs, 1, Len(bs) - 1)) + bs[Len(bs)]

\* string.encode('utf-8') of one code point, and of a string
Utf8Char(c) ==
    IF c < 128 THEN <<c>>
    ELSE IF c < 2048 THEN <<192 + (c \div 64), 128 + (c % 64)>>
    ELSE IF c < 65536
         THEN <<224 + (c \div 4096), 128 + ((c \div 64) % 64), 128 + (c % 64)>>
    ELSE <<240 + (c \div 262144), 128 + ((c \div 4096) % 64),
           128 + ((c \div 64) % 64), 128 + (c % 64)>>
RECURSIVE Utf8Encode(_)
Utf8Encode(s) == IF s = <<>> THEN <<>> ELSE Utf8Char(Head(s)) \o Utf8Encode(Tail(s))

IsCont(b) == b >= 128 /\ b <= 191
RECURSIVE Utf8Decode(_)
\* bs.decode('utf-8') (strict): [err, s]
Utf8Decode(bs) ==
    IF bs = <<>> THEN [err |-> "", s |-> <<>>]
    ELSE
      LET b1 == bs[1]
          n  == IF b1 < 128 THEN 1
                ELSE IF b1 >= 194 /\ b1 <= 223 THEN 2
                ELSE IF b1 >= 224 /\ b1 <= 239 THEN 3
                ELSE IF b1 >= 240 /\ b1 <= 244 THEN 4
                ELSE 0
          ok == n > 0 /\ Len(bs) >= n /\ \A i \in 2..n : IsCont(bs[i])
          c  == IF n = 1 THEN b1
                ELSE IF n = 2 THEN (b1 - 192) * 64 + (bs[2] - 128)
                ELSE IF n = 3 THEN (b1 - 224) * 4096 + (bs[2] - 128) * 64 + (bs[3] - 128)
                ELSE (b1 - 240) * 262144 + (bs[2] - 128) * 4096
                     + (bs[3] - 128) * 64 + (bs[4] - 128)
          valid == ok /\ (n = 3 => c >= 2048 /\ ~(c >= 55296 /\ c <= 57343))
                      /\ (n = 4 => c >= 65536 /\ c <= 1114111)
      IN  IF ~valid THEN [err |-> "UnicodeDecodeError", s |-> <<>>]
          ELSE The({IF rest.err /= "" THEN rest
                    ELSE [err |-> "", s |-> <<c>> \o rest.s]
                    : rest \in {Utf8Decode(SubSeq(bs, n + 1, Len(bs)))}})

\* k-bit big-endian binary of a natural number, and back
RECURSIVE Bits(_, _)
Bits(num, k) == IF k = 0 THEN <<>> ELSE Append(Bits(num \div 2, k - 1), num % 2)
RECURSIVE BitsVal(_)
BitsVal(bits) == IF bits = <<>> THEN 0
                 ELSE 2 * BitsVal(SubSeq(bits, 1, Len(bits) - 1)) + bits[Len(bits)]
RECURSIVE BitLen(_)
BitLen(m) == IF m = 0 THEN 0 ELSE 1 + BitLen(m \div 2)
Zeros(k) == [i \in 1..k |-> 0]

\* struct.pack('!d', x) of x = h/2: sign, 11-bit biased exponent, 52-bit fraction
PackDouble(v) ==
    IF v.s /= <<>> THEN v.s
    ELSE IF v.n = 0 THEN Zeros(8)
    ELSE LET m    == Abs(v.n)
             L    == BitLen(m)
             frac == SubSeq(Bits(m, L), 2, L) \o Zeros(52 - (L - 1))
             bits == <<IF v.n < 0 THEN 1 ELSE 0>> \o Bits(1023 + L - 2, 11) \o frac
         IN  [i \in 1..8 |-> BitsVal(SubSeq(bits, 8 * i - 7, 8 * i))]
RECURSIVE BytesBits(_)
BytesBits(bs) == IF bs = <<>> THEN <<>> ELSE Bits(Head(bs), 8) \o BytesBits(Tail(bs))
\* struct.unpack('!d', bs) of 8 bytes
UnpackDouble(bs) ==
    LET bits == BytesBits(bs)
        E    == BitsVal(SubSeq(bits, 2, 12))
        L    == E - 1021
        frac == SubSeq(bits, 13, 64)
    IN  IF bs = Zeros(8) THEN PyFloat(0)
        ELSE IF L >= 1 /\ L <= 30 /\ SubSeq(frac, L, 52) = Zeros(52 - (L - 1))
        THEN LET m == BitsVal(<<1>> \o SubSeq(frac, 1, L - 1))
             IN  PyFloat(IF bits[1] = 1 THEN -m ELSE m)
        ELSE PyFloatRaw(bs)


(***************************************************************************)
(* Errors: the exception a function raised, with the value its message     *)
(* names ("" = none).                                                      *)
(***************************************************************************)
NoErr == [kind |-> "", arg |-> PyInt(0)]
Raise(kind, arg) == [kind |-> kind, arg |-> arg]

(***************************************************************************)
(* A binary file object: data, the cursor, and (a history field, written   *)
(* by read_table only) the type-tag bytes decoded through it, each as      *)
(* <<"key" | "value" | "bool", offset just after the byte, byte>>.         *)
(***************************************************************************)
OpenFile(data) == [data |-> data, pos |-> 0, log |-> <<>>]
Min(a, b) == IF a < b THEN a ELSE b
\* file.read(k): at most k bytes, fewer at the end of the file
FileRead(f, k) ==
    LET to == Min(f.pos + k, Len(f.data))
    IN  [bs |-> SubSeq(f.data, f.pos + 1, to),
         f  |-> [f EXCEPT !.pos = IF to > f.pos THEN to ELSE f.pos]]
\* file.write(bs): overwrites from the cursor on and extends the file
FileWrite(f, bs) ==
    [f EXCEPT !.data = SubSeq(f.data, 1, f.pos) \o bs
                       \o SubSeq(f.data, f.pos + Len(bs) + 1, Len(f.data)),
              !.pos = f.pos + Len(bs)]
FileSeek(f, offset) == [f EXCEPT !.pos = offset]
Logged(f, kind, byte) == [f EXCEPT !.log = Append(f.log, <<kind, f.pos, byte>>)]

\* ---- primitive readers: [f, v, err] ----
read_int(f) ==
    LET r == FileRead(f, 4) IN [f |-> r.f, v |-> FromBytes(r.bs), err |-> NoErr]
read_short(f) ==
    LET r == FileRead(f, 2) IN [f |-> r.f, v |-> FromBytes(r.bs), err |-> NoErr]
\* mutant: read_bool without the check of the byte
read_bool_unchecked(f) ==
    LET r == FileRead(f, 1)
    IN  [f |-> Logged(r.f, "bool", FromBytes(r.bs)), v |-> PyBool(r.bs /= <<0>>),
         err |-> NoErr]
read_bool(f) ==
    LET r  == FileRead(f, 1)
        f1 == Logged(r.f, "bool", FromBytes(r.bs))
    IN  IF r.bs /= <<0>> /\ r.bs /= <<1>>
        THEN [f |-> f1, v |-> PyBool(FALSE),
              err |-> Raise("Bool value is neither true or false", PyInt(0))]
        ELSE [f |-> f1, v |-> PyBool(r.bs /= <<0>>), err |-> NoErr]
read_double(f) ==
    LET r == FileRead(f, 8)
    IN  IF Len(r.bs) /= 8
        THEN [f |-> r.f, v |-> PyFloat(0), err |-> Raise("struct.error", PyInt(0))]
        ELSE [f |-> r.f, v |-> UnpackDouble(r.bs), err |-> NoErr]
read_string_utf8(f) ==
    The({The({IF dec.err /= ""
              THEN [f |-> r.f, v |-> PyStr(<<>>), err |-> Raise(dec.err, PyInt(0))]
              ELSE [f |-> r.f, v |-> PyStr(dec.s), err |-> NoErr]
              : dec \in {Utf8Decode(r.bs)}})
         : r \in {The({FileRead(length.f, length.v) : length \in {read_short(f)}})}})

\* ---- primitive writers: [f, err] ----
write_int(f, num) == [f |-> FileWrite(f, ToBytes(num, 4)), err |-> NoErr]
write_bool(f, value) == [f |-> FileWrite(f, IF value THEN <<1>> ELSE <<0>>), err |-> NoErr]
write_double(f, num) == [f |-> FileWrite(f, PackDouble(num)), err |-> NoErr]
write_short(f, num) ==
    IF num >= 65536 THEN [f |-> f, err |-> Raise("OverflowError", PyInt(num))]
    ELSE [f |-> FileWrite(f, ToBytes(num, 2)), err |-> NoErr]
write_string_utf8(f, string) ==
    LET w == write_short(f, Len(string))
    IN  IF w.err /= NoErr THEN w
        ELSE [f |-> FileWrite(w.f, Utf8Encode(string)), err |-> NoErr]

(***************************************************************************)
(* read_table / write_table.                                               *)
(***************************************************************************)
RECURSIVE read_table(_)
\* read_table, lines 115-122: the key of a pair
read_key(f) ==
    The({LET key_type == FromBytes(kt.bs)
             f1       == Logged(kt.f, "key", key_type)
         IN  IF key_type = 0 THEN read_string_utf8(f1)
             ELSE IF key_type = 1 THEN read_double(f1)
             ELSE [f |-> f1, v |-> PyInt(0),
                   err |-> Raise("Invalid key type in table", PyInt(0))]
         : kt \in {FileRead(f, 1)}})
\* read_table, lines 124-135: the value of a pair
read_value(f, key) ==
    The({LET value_type == FromBytes(vt.bs)
             f2         == Logged(vt.f, "value", value_type)
         IN  IF value_type = 0 THEN read_string_utf8(f2)
             ELSE IF value_type = 1 THEN read_double(f2)
             ELSE IF value_type = 2 THEN read_table(f2)
             ELSE IF value_type = 3 THEN read_bool(f2)
             ELSE [f |-> f2, v |-> PyInt(0), err |-> Raise("Invalid value type", key)]
         : vt \in {FileRead(f, 1)}})
RECURSIVE read_pairs(_, _, _)
\* read_table's loop, `left` pairs still to read
read_pairs(f, table, left) ==
    IF left = 0 THEN [f |-> f, v |-> PyDict(table), err |-> NoErr]
    ELSE
      The({IF key.err /= NoErr THEN [f |-> key.f, v |-> PyDict(table), err |-> key.err]
           ELSE The({IF value.err /= NoErr
                     THEN [f |-> value.f, v |-> PyDict(table), err |-> value.err]
                     ELSE The({read_pairs(value.f, t, left - 1)
                               : t \in {DictSet(table, key.v, value.v)}})
                     : value \in {read_value(key.f, key.v)}})
           : key \in {read_key(f)}})
read_table(f) ==
    The({read_pairs(num_pairs.f, <<>>, num_pairs.v) : num_pairs \in {read_int(f)}})

RECURSIVE write_table(_, _)
\* write_table, lines 143-150: the key of a pair
write_key(f, key) ==
    IF key.t = "float" THEN write_double(FileWrite(f, <<1>>), key)
    ELSE IF key.t = "str" THEN write_string_utf8(FileWrite(f, <<0>>), key.s)
    ELSE [f |-> f, err |-> Raise("Cannot write table key", key)]
\* write_table, lines 152-165: the value of a pair
write_value(f, key, value) ==
    IF value.t = "str" THEN write_string_utf8(FileWrite(f, <<0>>), value.s)
    ELSE IF value.t = "float" THEN write_double(FileWrite(f, <<1>>), value)
    ELSE IF value.t = "dict" THEN write_table(FileWrite(f, <<2>>), value.d)
    ELSE IF value.t = "bool" THEN write_bool(FileWrite(f, <<3>>), value.b)
    ELSE [f |-> f, err |-> Raise("Cannot write table value", key)]
RECURSIVE write_pairs(_, _)
\* write_table's loop, over the items still to write
write_pairs(f, items) ==
    IF items = <<>> THEN [f |-> f, err |-> NoErr]
    ELSE
      The({IF wk.err /= NoErr THEN wk
           ELSE The({IF wv.err /= NoErr THEN wv ELSE write_pairs(wv.f, Tail(items))
                     : wv \in {write_value(wk.f, items[1][1], items[1][2])}})
           : wk \in {write_key(f, items[1][1])}})
write_table(f, table) ==
    The({write_pairs(w.f, table) : w \in {write_int(f, Len(table))}})

(***************************************************************************)
(* The JSON key transform.                                                 *)
(***************************************************************************)
\* str(key) of a float key
FloatStr(key) == IF key.s /= <<>> THEN key.s ELSE FloatRepr(key.n)

RECURSIVE table_keys_to_json(_)
\* lines 35-42: one item of the loop, put into result
to_json_item(result, key, value) ==
    DictSet(result,
            IF key.t = "str" THEN PyStr(JSON_STRING_PREFIX \o key.s)
            ELSE IF key.t = "float" THEN PyStr(JSON_NUMBER_PREFIX \o FloatStr(key))
            ELSE key,
            IF value.t = "dict" THEN PyDict(table_keys_to_json(value.d)) ELSE value)
RECURSIVE to_json_items(_, _)
to_json_items(items, result) ==
    IF items = <<>> THEN result
    ELSE The({to_json_items(Tail(items), r)
              : r \in {to_json_item(result, items[1][1], items[1][2])}})
table_keys_to_json(table) == to_json_items(table, <<>>)

RECURSIVE table_keys_from_json(_)
\* mutant: the number prefix tested by a second `if`, not by `elif`
from_json_key_if_if(key) ==
    LET k1 == IF key.t = "str" THEN RemovePrefix(key.s, JSON_STRING_PREFIX) ELSE key.s
    IN  IF key.t = "str" /\ StartsWith(k1, JSON_NUMBER_PREFIX)
        THEN ParseFloat(RemovePrefix(k1, JSON_NUMBER_PREFIX))
        ELSE IF key.t = "str" THEN [v |-> PyStr(k1), err |-> ""]
        ELSE [v |-> key, err |-> ""]
\* lines 50-54: the key, [v, err]; float() raises ValueError on a text that is
\* no number
from_json_key(key) ==
    IF key.t = "str" /\ StartsWith(key.s, JSON_STRING_PREFIX)
    THEN [v |-> PyStr(RemovePrefix(key.s, JSON_STRING_PREFIX)), err |-> ""]
    ELSE IF key.t = "str" /\ StartsWith(key.s, JSON_NUMBER_PREFIX)
    THEN ParseFloat(RemovePrefix(key.s, JSON_NUMBER_PREFIX))
    ELSE [v |-> key, err |-> ""]
\* lines 56-57: the value, [v, err]
from_json_value(value) ==
    IF value.t = "dict"
    THEN The({[v |-> PyDict(r.v), err |-> r.err] : r \in {table_keys_from_json(value.d)}})
    ELSE [v |-> value, err |-> NoErr]
RECURSIVE from_json_items(_, _)
from_json_items(items, result) ==
    IF items = <<>> THEN [v |-> result, err |-> NoErr]
    ELSE The({IF k.err /= "" THEN [v |-> result, err |-> Raise(k.err, items[1][1])]
              ELSE The({IF v.err /= NoErr THEN [v |-> result, err |-> v.err]
                        ELSE The({from_json_items(Tail(items), r)
                                  : r \in {DictSet(result, k.v, v.v)}})
                        : v \in {from_json_value(items[1][2])}})
              : k \in {from_json_key(items[1][1])}})
\* [v, err]
table_keys_from_json(table) == from_json_items(table, <<>>)

(***************************************************************************)
(* The json library, on JSON texts kept as trees: an object is a sequence  *)
(* of <<name, value>> members, a number is its token as written.           *)
(***************************************************************************)
JStr(s)    == [t |-> "jstr",  s |-> s,    n |-> 0, b |-> FALSE, d |-> <<>>]
JNum(tok)  == [t |-> "jnum",  s |-> tok,  n |-> 0, b |-> FALSE, d |-> <<>>]
JBool(b)   == [t |-> "jbool", s |-> <<>>, n |-> 0, b |-> b,     d |-> <<>>]
JObj(d)    == [t |-> "jobj",  s |-> <<>>, n |-> 0, b |-> FALSE, d |-> d]

RECURSIVE json_dump(_)
\* json.dump: a float is written by its repr, an int by its digits, a dict
\* as an object whose names are its (string) keys
json_dump(v) ==
    IF v.t = "str" THEN JStr(v.s)
    ELSE IF v.t = "float" THEN JNum(FloatStr(v))
    ELSE IF v.t = "int" THEN JNum(IntRepr(v.n))
    ELSE IF v.t = "bool" THEN JBool(v.b)
    ELSE JObj([i \in 1..Len(v.d) |->
                 <<IF v.d[i][1].t = "float" THEN FloatStr(v.d[i][1]) ELSE v.d[i][1].s,
                   json_dump(v.d[i][2])>>])

RECURSIVE json_load(_), json_members(_, _)
\* json.load: a number token without fraction is an int, the others floats;
\* a repeated member name keeps the last value
json_load(j) ==
    IF j.t = "jstr" THEN PyStr(j.s)
    ELSE IF j.t = "jnum"
         THEN IF AllDigits(j.s) \/ (Len(j.s) > 1 /\ j.s[1] = 45 /\ AllDigits(Tail(j.s)))
              THEN PyInt(IF j.s[1] = 45 THEN -DigitsVal(Tail(j.s)) ELSE DigitsVal(j.s))
              ELSE ParseFloat(j.s).v
    ELSE IF j.t = "jbool" THEN PyBool(j.b)
    ELSE PyDict(json_members(j.d, <<>>))


\* the members of an object, put into a dict one after another
json_members(ms, result) ==
    IF ms = <<>> THEN result
    ELSE The({json_members(Tail(ms), r)
              : r \in {The({DictSet(result, PyStr(ms[1][1]), v)
                            : v \in {json_load(ms[1][2])}})}})

(***************************************************************************)
(* GlobalModData, paths and the file system.                               *)
(*   A path is the sequence of its '/'-separated components; a component   *)
(*   is the sequence of its '.'-separated parts ("out/a.json" is           *)
(*   << <<"out">>, <<"a", "json">> >>).  <<>> is the working directory and *)
(*   the empty name <<"">> in front is the root.                           *)
(***************************************************************************)
GlobalModData(world_version) == [world_version |-> world_version, tables |-> <<>>]
\* no document (a variable not yet assigned)
NoGmd == [world_version |-> PyInt(-1), tables |-> <<>>]

Parent(path) == SubSeq(path, 1, Len(path) - 1)
Last(seq) == seq[Len(seq)]
\* open(path, 'r' / 'rb') succeeds on an existing file
CanOpenRead(fs_files, path) == path \in fs_files
\* open(path, 'w' / 'wb') creates or truncates the file in an existing directory
CanOpenWrite(fs_dirs, path) ==
    /\ path /= <<>>
    /\ Last(path) /= <<"">>
    /\ Parent(path) \in fs_dirs
    /\ path \notin fs_dirs
\* os.makedirs(name, exist_ok=True): [dirs, err]
makedirs(fs_dirs, fs_files, name) ==
    LET prefixes == {SubSeq(name, 1, k) : k \in 1..Len(name)}
    IN  IF name = <<>> \/ name = << <<"">> >>
        THEN [dirs |-> fs_dirs, err |-> Raise("FileNotFoundError", PyInt(0))]
        ELSE IF prefixes \cap fs_files /= {}
        THEN [dirs |-> fs_dirs, err |-> Raise("FileExistsError", PyInt(0))]
        ELSE [dirs |-> fs_dirs \cup prefixes, err |-> NoErr]
\* out_filepath.rsplit('/')[0]
FirstComponent(path) == IF path = <<>> THEN << <<"">> >> ELSE <<path[1]>>
\* in_filepath.rsplit('/')[-1].rsplit('.', 1)[-1]
Extension(path) == IF path = <<>> THEN "" ELSE Last(Last(path))

DefaultJsonOut == << <<"out">>, <<"global_mod_data", "json">> >>
DefaultBinOut  == << <<"out">>, <<"global_mod_data", "bin">> >>

(***************************************************************************)
(* The steps of from_bin and to_bin as functions of the file object.       *)
(***************************************************************************)
\* mutant: the version checked after num_entries is read
from_bin_header_late_check(f) ==
    The({The({IF world_version.v \notin SUPPORTED_VERSIONS
              THEN [f |-> entries.f, v |-> world_version.v, n |-> 0,
                    err |-> Raise("Unsupported world version", PyInt(world_version.v))]
              ELSE [f |-> entries.f, v |-> world_version.v, n |-> entries.v,
                    err |-> NoErr]
              : entries \in {read_int(world_version.f)}})
         : world_version \in {read_int(f)}})
\* from_bin, lines 176-181: [f, v (the version), n (num_entries), err]
from_bin_header(f) ==
    The({IF world_version.v \notin SUPPORTED_VERSIONS
         THEN [f |-> world_version.f, v |-> world_version.v, n |-> 0,
               err |-> Raise("Unsupported world version", PyInt(world_version.v))]
         ELSE The({[f |-> entries.f, v |-> world_version.v, n |-> entries.v,
                    err |-> NoErr]
                   : entries \in {read_int(world_version.f)}})
         : world_version \in {read_int(f)}})
\* from_bin, lines 183-186, one iteration: [f, name, table, err]
from_bin_entry(f) ==
    The({IF name.err /= NoErr
         THEN [f |-> name.f, name |-> name.v, table |-> PyDict(<<>>), err |-> name.err]
         ELSE The({[f |-> table.f, name |-> name.v, table |-> table.v,
                    err |-> table.err]
                   : table \in {read_table(name.f)}})
         : name \in {The({read_string_utf8(length.f) : length \in {read_int(f)}})}})

\* to_bin, lines 200-202: [f, err]
to_bin_header(f, doc) ==
    IF doc.world_version.t /= "int" \/ doc.world_version.n < 0
    THEN [f |-> f, err |-> Raise("bad world_version", doc.world_version)]
    ELSE write_int(write_int(f, doc.world_version.n).f, Len(doc.tables))
\* to_bin, lines 204-208, one iteration up to the end of the table: [f, err]
to_bin_entry(f, table_name, table) ==
    The({IF w.err /= NoErr THEN w ELSE write_table(w.f, table)
         : w \in {write_string_utf8(write_int(f, 0).f, table_name)}})
\* mutant: to_bin without the final file.seek(end)
to_bin_backpatch_no_seek(f, start_) ==
    write_int(FileSeek(f, start_), f.pos - start_ - 4).f
\* to_bin, lines 210-213: the cursor is at the entry's end
to_bin_backpatch(f, start_) ==
    LET end_ == f.pos
    IN  FileSeek(write_int(FileSeek(f, start_), end_ - start_ - 4).f, end_)

\* mutant: the key transform applied to each table, not to the dict of tables
to_json_dict_per_table(doc) ==
    DictSet([k \in 1..Len(doc.tables) |->
                <<doc.tables[k][1], PyDict(table_keys_to_json(doc.tables[k][2].d))>>],
            PyStr(JSON_WORLD_VERSION_KEY), doc.world_version)
\* to_json, lines 239-240: the dict handed to json.dump
to_json_dict(doc) ==
    DictSet(table_keys_to_json(doc.tables), PyStr(JSON_WORLD_VERSION_KEY),
            doc.world_version)
\* from_json, lines 225-227, of the loaded dict: [v (the document), err]
from_json_dict(gmd_dict) ==
    IF ~DictHas(gmd_dict, PyStr(JSON_WORLD_VERSION_KEY))
    THEN [v |-> NoGmd, err |-> Raise("KeyError", PyStr(JSON_WORLD_VERSION_KEY))]
    ELSE The({IF tables.err /= NoErr THEN [v |-> NoGmd, err |-> tables.err]
              ELSE [v |-> [world_version |->
                               DictGet(gmd_dict, PyStr(JSON_WORLD_VERSION_KEY)),
                           tables |-> tables.v],
                    err |-> NoErr]
              : tables \in {table_keys_from_json(
                                DictPop(gmd_dict, PyStr(JSON_WORLD_VERSION_KEY)))}})
\* a JSON file that json.load cannot parse
JInvalid == [t |-> "invalid", s |-> <<>>, n |-> 0, b |-> FALSE, d |-> <<>>]


(***************************************************************************)
(* Bounds and inputs.                                                      *)
(***************************************************************************)
\* tables per document
MaxTables == 2
\* nesting depth of the nested tables (a table of depth MaxDepth + 1)
MaxDepth == 2
\* calls the driver makes in a row
MaxCalls == 2

\* "Players", "é" (2 bytes in UTF-8), "q"
TableNames == << <<80, 108, 97, 121, 101, 114, 115>>, <<233>>, <<113>> >>

\* {"Alice": True, 42.0: "gold"}
T_example ==
    << <<PyStr(<<65, 108, 105, 99, 101>>), PyBool(TRUE)>>,
       <<PyFloat(84), PyStr(<<103, 111, 108, 100>>)>> >>
\* {"3": 1.5, 3.0: "3", "_string: 3": False, "_number: 3.0": -2.0}
T_keys ==
    << <<PyStr(<<51>>), PyFloat(3)>>,
       <<PyFloat(6), PyStr(<<51>>)>>,
       <<PyStr(JSON_STRING_PREFIX \o <<51>>), PyBool(FALSE)>>,
       <<PyStr(JSON_NUMBER_PREFIX \o <<51, 46, 48>>), PyFloat(-4)>> >>
\* {"k": "aé", "€": 0.0}
T_multi ==
    << <<PyStr(<<107>>), PyStr(<<97, 233>>)>>,
       <<PyStr(<<8364>>), PyFloat(0)>> >>
RECURSIVE T_nested(_)
\* {"n": {"n": ... {"b": True, 0.5: "x"} ..., 1.0: False}, k: False}
T_nested(k) ==
    IF k = 0 THEN << <<PyStr(<<98>>), PyBool(TRUE)>>, <<PyFloat(1), PyStr(<<120>>)>> >>
    ELSE << <<PyStr(<<110>>), PyDict(T_nested(k - 1))>>, <<PyFloat(2 * k), PyBool(FALSE)>> >>
TablePool == {<<>>, T_example, T_keys, T_multi} \cup {T_nested(k) : k \in 1..MaxDepth}

\* the valid documents: up to MaxTables tables under distinct names
NameChoices(k) ==
    {ns \in [1..k -> 1..Len(TableNames)] : \A a, b \in 1..k : a < b => ns[a] < ns[b]}
Docs ==
    UNION {{[world_version |-> PyInt(195),
             tables |-> [j \in 1..k |-> <<PyStr(TableNames[ns[j]]), PyDict(ts[j])>>]]
            : ns \in NameChoices(k), ts \in [1..k -> TablePool]}
           : k \in 0..MaxTables}

RECURSIVE EncodeEntries(_, _)
EncodeEntries(f, tables) ==
    IF tables = <<>> THEN f
    ELSE The({EncodeEntries(g, Tail(tables))
              : g \in {to_bin_backpatch(
                           to_bin_entry(f, tables[1][1].s, tables[1][2].d).f, f.pos)}})
\* the bytes of the binary file of a document
EncodeDoc(doc) == EncodeEntries(to_bin_header(OpenFile(<<>>), doc).f, doc.tables).data

\* binary input files: well-formed files of one table, and the same files
\* with an unsupported version, or with one type tag or boolean byte replaced
\* by a byte outside its domain
SeedDocs ==
    {[world_version |-> PyInt(195), tables |-> << <<PyStr(TableNames[1]), PyDict(t)>> >>]
     : t \in {T_example, T_nested(MaxDepth)}}
BadBytes(kind) == IF kind = "value" THEN {4, 255} ELSE {2, 255}
TagsOf(data) == from_bin_entry(FileSeek(OpenFile(data), 8)).f.log
BinInputs ==
    UNION {{data}
           \cup {ToBytes(v, 4) \o SubSeq(data, 5, Len(data)) : v \in {0, 194, 196}}
           \cup UNION {{[data EXCEPT ![tags[k][2]] = bad]
                        : <<k, bad>> \in {<<k, bad>> \in (1..Len(tags)) \X {2, 4, 255}
                                          : bad \in BadBytes(tags[k][1])}}
                       : tags \in {TagsOf(data)}}
           : data \in {EncodeDoc(doc) : doc \in SeedDocs}}

\* JSON input files
JVersion == <<JSON_WORLD_VERSION_KEY, JNum(<<49, 57, 53>>)>>
JDoc(name, members) == JObj(<< <<name, JObj(members)>>, JVersion >>)
JsonInputs ==
    { \* {"_string: Players": {"_string: a": 5.0}, "__WORLD_VERSION": 195}
      JDoc(JSON_STRING_PREFIX \o TableNames[1],
           << <<JSON_STRING_PREFIX \o <<97>>, JNum(<<53, 46, 48>>)>> >>),
      \* {"_string: Players": {"_string: a": 5}, "__WORLD_VERSION": 195}
      JDoc(JSON_STRING_PREFIX \o TableNames[1],
           << <<JSON_STRING_PREFIX \o <<97>>, JNum(<<53>>)>> >>),
      \* {"Players": {"_number: 3": "x", "_string: t": {"_number: 1.5": true}}, ...}
      JDoc(TableNames[1],
           << <<JSON_NUMBER_PREFIX \o <<51>>, JStr(<<120>>)>>,
              <<JSON_STRING_PREFIX \o <<116>>,
                JObj(<< <<JSON_NUMBER_PREFIX \o <<49, 46, 53>>, JBool(TRUE)>> >>)>> >>),
      \* {"Players": {"a": "x"}, ...}: a key without prefix
      JDoc(TableNames[1], << <<<<97>>, JStr(<<120>>)>> >>),
      \* {"Players": {"_number: a": true}, ...}: a number key that is no number
      JDoc(TableNames[1], << <<JSON_NUMBER_PREFIX \o <<97>>, JBool(TRUE)>> >>),
      \* {"Players": {}}: no version
      JObj(<< <<TableNames[1], JObj(<<>>)>> >>),
      JInvalid }

\* command lines
ApiBinPath  == << <<"gmd", "bin">> >>
ApiJsonPath == << <<"gmd", "json">> >>
InPaths == { << <<"global_mod_data", "bin">> >>,
             << <<"global_mod_data", "json">> >>,
             << <<"notes", "txt">> >> }
OutPaths == { << <<"out">>, <<"r", "json">> >>,
              << <<"result", "json">> >>,
              << <<"a">>, <<"b">>, <<"r", "bin">> >>,
              << <<"">>, <<"tmp">>, <<"r", "json">> >> }
Argvs == {<<"gmd_converter.py">>}
         \cup {<<"gmd_converter.py", inp>> : inp \in InPaths}
         \cup {<<"gmd_converter.py", inp, out>> : inp \in InPaths, out \in OutPaths}
BaseDirs == {<<>>, << <<"">> >>, << <<"">>, <<"tmp">> >>}
DirSets == {BaseDirs,
            BaseDirs \cup {<< <<"out">> >>},
            BaseDirs \cup {<< <<"a">> >>, << <<"a">>, <<"b">> >>}}


(***************************************************************************)
(* The state.                                                              *)
(***************************************************************************)
VARIABLES
    pc,               \* the function about to run / the loop it is in; "idle":
                      \* between two calls of the driver; "raised": an
                      \* exception ended the program; "exit1": sys.exit(1);
                      \* "done": main returned
    ret,              \* where the running function returns to
    hist,             \* the functions called so far, in order
    argv,             \* sys.argv (<<>> when main is not run)
    filepath,         \* the running function's filepath argument
    dirs, files,      \* the directories and the files that exist
    binFile,          \* the content of the binary file
    jsonFile,         \* the content of the JSON file
    gmd,              \* the caller's document (main's gmd)
    written,          \* the document handed to the last to_bin / to_json
    global_mod_data,  \* from_bin's local document
    file,             \* the running function's binary file object
    handle,           \* of the file the last called function opened:
                      \* "none" (not opened), "open", "closed"
    num_entries, i,   \* from_bin's and to_bin's loop
    start,            \* to_bin's start
    err               \* the exception raised

vars == <<pc, ret, hist, argv, filepath, dirs, files, binFile, jsonFile, gmd,
          written, global_mod_data, file, handle, num_entries, i, start, err>>

Readers == {"from_bin", "from_json"}
Writers == {"to_bin", "to_json"}

InitCommon ==
    /\ ret = "idle" /\ hist = <<>> /\ filepath = <<>>
    /\ written = NoGmd /\ global_mod_data = NoGmd
    /\ file = OpenFile(<<>>) /\ handle = "none"
    /\ num_entries = 0 /\ i = 0 /\ start = 0 /\ err = NoErr

\* a document in memory, to be written
InitDoc ==
    /\ pc = "idle" /\ argv = <<>> /\ dirs = BaseDirs /\ files = {}
    /\ gmd \in Docs /\ binFile = <<>> /\ jsonFile = JInvalid
\* a binary file on disk, to be read
InitBin ==
    /\ pc = "idle" /\ argv = <<>> /\ dirs = BaseDirs /\ files = {ApiBinPath}
    /\ gmd = NoGmd /\ binFile \in BinInputs /\ jsonFile = JInvalid
\* a JSON file on disk, to be read
InitJson ==
    /\ pc = "idle" /\ argv = <<>> /\ dirs = BaseDirs /\ files = {ApiJsonPath}
    /\ gmd = NoGmd /\ binFile = <<>> /\ jsonFile \in JsonInputs
\* the program run from the command line
InitMain ==
    /\ pc = "main" /\ argv \in Argvs /\ dirs \in DirSets
    /\ files = IF Len(argv) >= 2 THEN {argv[2]} ELSE {}
    /\ gmd = NoGmd
    /\ binFile \in {EncodeDoc(doc) : doc \in SeedDocs}
    /\ jsonFile = JDoc(JSON_STRING_PREFIX \o TableNames[1],
                       << <<JSON_STRING_PREFIX \o <<97>>, JNum(<<53, 46, 48>>)>> >>)

Init == InitCommon /\ (InitDoc \/ InitBin \/ InitJson \/ InitMain)

(***************************************************************************)
(* The driver: a caller of the four public functions, one after another.   *)
(***************************************************************************)
ApiPath(fn) == IF fn \in {"from_bin", "to_bin"} THEN ApiBinPath ELSE ApiJsonPath
Call(fn, path, back) ==
    /\ pc' = fn /\ ret' = back /\ filepath' = path
    /\ hist' = Append(hist, fn)
    /\ handle' = "none"
    /\ global_mod_data' = NoGmd
    /\ written' = IF fn \in Writers THEN gmd ELSE written

driver ==
    /\ pc = "idle"
    /\ Len(hist) < MaxCalls
    /\ \E fn \in Readers \cup Writers :
         /\ fn \in Writers => gmd /= NoGmd
         /\ fn \in Readers => ApiPath(fn) \in files
         /\ Call(fn, ApiPath(fn), "idle")
    /\ UNCHANGED <<argv, dirs, files, binFile, jsonFile, gmd, file, num_entries,
                   i, start, err>>

(***************************************************************************)
(* from_bin                                                                *)
(***************************************************************************)
\* lines 174-181
from_bin_open ==
    /\ pc = "from_bin"
    /\ IF ~CanOpenRead(files, filepath)
       THEN /\ pc' = "raised" /\ err' = Raise("FileNotFoundError", PyInt(0))
            /\ UNCHANGED <<file, handle, global_mod_data, num_entries, i>>
       ELSE \E h \in {from_bin_header(OpenFile(binFile))} :
                /\ file' = h.f
                /\ handle' = "open"
                /\ IF h.err /= NoErr
                   THEN /\ pc' = "raised" /\ err' = h.err
                        /\ UNCHANGED <<global_mod_data, num_entries, i>>
                   ELSE /\ pc' = "from_bin_loop"
                        /\ global_mod_data' = GlobalModData(PyInt(h.v))
                        /\ num_entries' = h.n
                        /\ i' = 0
                        /\ err' = err
    /\ UNCHANGED <<ret, hist, argv, filepath, dirs, files, binFile, jsonFile, gmd,
                   written, start>>

\* lines 182-186, one iteration
from_bin_loop ==
    /\ pc = "from_bin_loop"
    /\ i < num_entries
    /\ \E e \in {from_bin_entry(file)} :
           /\ file' = e.f
           /\ IF e.err /= NoErr
              THEN /\ pc' = "raised" /\ err' = e.err
                   /\ UNCHANGED <<global_mod_data, i>>
              ELSE /\ global_mod_data' =
                        [global_mod_data EXCEPT
                           !.tables = DictSet(global_mod_data.tables, e.name, e.table)]
                   /\ i' = i + 1
                   /\ UNCHANGED <<pc, err>>
    /\ UNCHANGED <<ret, hist, argv, filepath, dirs, files, binFile, jsonFile, gmd,
                   written, handle, num_entries, start>>

\* lines 187-189
from_bin_return ==
    /\ pc = "from_bin_loop"
    /\ i >= num_entries
    /\ handle' = "closed"
    /\ gmd' = global_mod_data
    /\ pc' = ret
    /\ UNCHANGED <<ret, hist, argv, filepath, dirs, files, binFile, jsonFile,
                   written, global_mod_data, file, num_entries, i, start, err>>

(***************************************************************************)
(* to_bin                                                                  *)
(***************************************************************************)
\* lines 199-202
to_bin_open ==
    /\ pc = "to_bin"
    /\ IF ~CanOpenWrite(dirs, filepath)
       THEN /\ pc' = "raised" /\ err' = Raise("OSError", PyInt(0))
            /\ UNCHANGED <<file, handle, files, binFile, i>>
       ELSE \E h \in {to_bin_header(OpenFile(<<>>), gmd)} :
                /\ file' = h.f
                /\ handle' = "open"
                /\ files' = files \cup {filepath}
                /\ binFile' = h.f.data
                /\ i' = 0
                /\ IF h.err /= NoErr
                   THEN pc' = "raised" /\ err' = h.err
                   ELSE pc' = "to_bin_loop" /\ err' = err
    /\ UNCHANGED <<ret, hist, argv, filepath, dirs, jsonFile, gmd, written,
                   global_mod_data, num_entries, start>>

\* lines 203-208: the entry, its length still 0
to_bin_loop ==
    /\ pc = "to_bin_loop"
    /\ i < Len(gmd.tables)
    /\ \E w \in {to_bin_entry(file, gmd.tables[i + 1][1].s, gmd.tables[i + 1][2].d)} :
           /\ start' = file.pos
           /\ file' = w.f
           /\ binFile' = w.f.data
           /\ IF w.err /= NoErr
              THEN pc' = "raised" /\ err' = w.err
              ELSE pc' = "to_bin_patch" /\ err' = err
    /\ UNCHANGED <<ret, hist, argv, filepath, dirs, files, jsonFile, gmd, written,
                   global_mod_data, handle, num_entries, i>>

\* lines 210-213
to_bin_patch ==
    /\ pc = "to_bin_patch"
    /\ file' = to_bin_backpatch(file, start)
    /\ binFile' = file'.data
    /\ i' = i + 1
    /\ pc' = "to_bin_loop"
    /\ UNCHANGED <<ret, hist, argv, filepath, dirs, files, jsonFile, gmd, written,
                   global_mod_data, handle, num_entries, start, err>>

\* the end of to_bin: the file object is not closed
to_bin_return ==
    /\ pc = "to_bin_loop"
    /\ i >= Len(gmd.tables)
    /\ pc' = ret
    /\ UNCHANGED <<ret, hist, argv, filepath, dirs, files, binFile, jsonFile, gmd,
                   written, global_mod_data, file, handle, num_entries, i, start, err>>

(***************************************************************************)
(* from_json, to_json                                                      *)
(***************************************************************************)
\* lines 222-228
from_json ==
    /\ pc = "from_json"
    /\ IF ~CanOpenRead(files, filepath)
       THEN /\ pc' = "raised" /\ err' = Raise("FileNotFoundError", PyInt(0))
            /\ UNCHANGED <<handle, gmd>>
       ELSE IF jsonFile = JInvalid
       THEN /\ pc' = "raised" /\ err' = Raise("JSONDecodeError", PyInt(0))
            /\ handle' = "open"
            /\ gmd' = gmd
       ELSE \E r \in {from_json_dict(json_load(jsonFile).d)} :
                /\ handle' = "closed"
                /\ IF r.err /= NoErr
                   THEN pc' = "raised" /\ err' = r.err /\ gmd' = gmd
                   ELSE pc' = ret /\ err' = err /\ gmd' = r.v
    /\ UNCHANGED <<ret, hist, argv, filepath, dirs, files, binFile, jsonFile,
                   written, global_mod_data, file, num_entries, i, start>>

\* lines 239-244
to_json ==
    /\ pc = "to_json"
    /\ IF ~CanOpenWrite(dirs, filepath)
       THEN /\ pc' = "raised" /\ err' = Raise("OSError", PyInt(0))
            /\ UNCHANGED <<handle, files, jsonFile>>
       ELSE /\ jsonFile' = json_dump(PyDict(to_json_dict(gmd)))
            /\ files' = files \cup {filepath}
            /\ handle' = "closed"
            /\ pc' = ret
            /\ err' = err
    /\ UNCHANGED <<ret, hist, argv, filepath, dirs, binFile, gmd, written,
                   global_mod_data, file, num_entries, i, start>>

(***************************************************************************)
(* main                                                                    *)
(***************************************************************************)
\* lines 248-257, 264-265, 272-273
main ==
    /\ pc = "main"
    /\ IF Len(argv) < 2
       THEN /\ pc' = "exit1"
            /\ UNCHANGED <<ret, hist, filepath, handle, written, global_mod_data>>
       ELSE IF Extension(argv[2]) = "bin" THEN Call("from_bin", argv[2], "main_bin")
       ELSE IF Extension(argv[2]) = "json" THEN Call("from_json", argv[2], "main_json")
       ELSE /\ pc' = "done"
            /\ UNCHANGED <<ret, hist, filepath, handle, written, global_mod_data>>
    /\ UNCHANGED <<argv, dirs, files, binFile, jsonFile, gmd, file, num_entries,
                   i, start, err>>

\* lines 259-263 (from a .bin input) and 267-271 (from a .json input)
MainOut(writer, default) ==
    \E out_filepath \in {IF Len(argv) > 2 THEN argv[3] ELSE default} :
    \E m \in {makedirs(dirs, files, FirstComponent(out_filepath))} :
        /\ dirs' = m.dirs
        /\ IF m.err /= NoErr
           THEN /\ pc' = "raised" /\ err' = m.err
                /\ UNCHANGED <<ret, hist, filepath, handle, written, global_mod_data>>
           ELSE /\ Call(writer, out_filepath, "done")
                /\ err' = err
        /\ UNCHANGED <<argv, files, binFile, jsonFile, gmd, file, num_entries, i,
                       start>>
main_bin == pc = "main_bin" /\ MainOut("to_json", DefaultJsonOut)
main_json == pc = "main_json" /\ MainOut("to_bin", DefaultBinOut)

Next ==
    \/ driver
    \/ from_bin_open \/ from_bin_loop \/ from_bin_return
    \/ to_bin_open \/ to_bin_loop \/ to_bin_patch \/ to_bin_return
    \/ from_json \/ to_json
    \/ main \/ main_bin \/ main_json

Spec == Init /\ [][Next]_vars


(***************************************************************************)
(* Properties.                                                             *)
(***************************************************************************)
LastCall == IF hist = <<>> THEN "" ELSE hist[Len(hist)]
\* the last two calls were a, then b
Ends(a, b) == Len(hist) >= 2 /\ hist[Len(hist) - 1] = a /\ LastCall = b
\* no function is running: the last call returned, or the program ended
Outside == pc \in {"idle", "main_bin", "main_json", "done", "raised", "exit1"}

\* C1: a document written by to_bin and read back by from_bin is read without
\* error and equals the document written (version, names, keys, values).
C1_BinaryRoundTrip ==
    (Ends("to_bin", "from_bin") /\ pc \in {"idle", "raised"})
        => (pc = "idle" /\ gmd = written)

\* C2: a document written by to_json and read back by from_json is read
\* without error and equals the document written: every key, at every depth,
\* comes back with its type and its text, so no two keys of a table share a
\* JSON key.
C2_JsonRoundTrip ==
    (Ends("to_json", "from_json") /\ pc \in {"idle", "raised"})
        => (pc = "idle" /\ gmd = written)
\* the table {"3", 3.0, "_string: 3", "_number: 3.0"} went through JSON
C2_Witness ==
    /\ Ends("to_json", "from_json") /\ pc = "idle"
    /\ \E k \in 1..Len(written.tables) : written.tables[k][2].d = T_keys

\* C3: once to_bin has written an entry, the 2-byte length prefix of the
\* entry's name equals the number of UTF-8 bytes of the name that follow it,
\* and read_string_utf8 started at the prefix returns the name and stops on
\* the first byte after it.
C3_LengthPrefix ==
    pc = "to_bin_patch" =>
        \A r \in {read_string_utf8(FileSeek(file, start + 4))} :
            /\ FromBytes(SubSeq(file.data, start + 5, start + 6))
                   = Len(Utf8Encode(gmd.tables[i + 1][1].s))
            /\ r.err = NoErr
            /\ r.v = gmd.tables[i + 1][1]
            /\ r.f.pos = start + 6 + Len(Utf8Encode(gmd.tables[i + 1][1].s))

MemberNames(j) == {j.d[k][1] : k \in 1..Len(j.d)}
VersionOf(data) == FromBytes(SubSeq(data, 1, Min(4, Len(data))))
\* C5: from_bin on a file whose leading uint32 is not a supported version
\* raises the unsupported-version error carrying that value, having read
\* nothing but the version (no table count, no entry), builds no document and
\* does not return; on a supported version it raises no such error and goes
\* on to read the table count and the entries.
C5_VersionCheck ==
    (LastCall = "from_bin" /\ pc /= "from_bin" /\ CanOpenRead(files, filepath)) =>
        IF VersionOf(binFile) \notin SUPPORTED_VERSIONS
        THEN /\ pc = "raised"
             /\ err = Raise("Unsupported world version", PyInt(VersionOf(binFile)))
             /\ file.pos <= 4
             /\ file.log = <<>>
             /\ global_mod_data = NoGmd
        ELSE /\ err.kind /= "Unsupported world version"
             /\ global_mod_data.world_version = PyInt(VersionOf(binFile))
             /\ pc = "from_bin_loop" =>
                    /\ file.pos >= 8
                    /\ num_entries = FromBytes(SubSeq(binFile, 5, 8))
C5_Witness ==
    /\ LastCall = "from_bin" /\ pc = "raised"
    /\ err = Raise("Unsupported world version", PyInt(194))

\* a type byte outside its domain
BadTag(e) ==
    \/ e[1] = "key" /\ e[3] \notin {0, 1}
    \/ e[1] = "value" /\ e[3] \notin {0, 1, 2, 3}
    \/ e[1] = "bool" /\ e[3] \notin {0, 1}
TagError(kind) ==
    IF kind = "key" THEN "Invalid key type in table"
    ELSE IF kind = "value" THEN "Invalid value type"
    ELSE "Bool value is neither true or false"
\* C6: a key-type byte other than 0/1, a value-type byte other than 0..3 or
\* a boolean byte other than 0/1 that from_bin meets, at any depth, is the
\* last byte it decodes: the read ends with the error of that byte (for a
\* value type, the error naming the key just decoded) and never returns a
\* document.
C6_TagRejection ==
    LastCall = "from_bin" =>
        \A k \in 1..Len(file.log) :
            BadTag(file.log[k]) =>
                /\ k = Len(file.log)
                /\ file.pos = file.log[k][2]
                /\ pc = "raised"
                /\ err.kind = TagError(file.log[k][1])
                /\ file.log[k][1] = "value" => err.arg.t \in {"str", "float"}
\* a malformed boolean inside a table met after other, well-formed pairs
C6_Witness ==
    /\ LastCall = "from_bin" /\ pc = "raised"
    /\ Len(file.log) >= 3
    /\ Last(file.log)[1] = "bool" /\ BadTag(Last(file.log))

\* C7: the step that back-patches an entry changes the 4 bytes of the
\* entry's length field and nothing else, the field then holds the number of
\* bytes from its end to the end of the file, which is 2 + the name's bytes +
\* the table's bytes, and the cursor is back at the end; the step that writes
\* the next entry starts at the end of what was written and leaves it as it
\* was.
C7_BackPatch ==
    [][ /\ pc = "to_bin_patch" =>
             /\ file.pos = Len(file.data)
             /\ Len(file'.data) = Len(file.data)
             /\ \A k \in 1..Len(file.data) :
                    k \notin (start + 1)..(start + 4) => file'.data[k] = file.data[k]
             /\ FromBytes(SubSeq(file'.data, start + 1, start + 4))
                    = Len(file.data) - (start + 4)
             /\ FromBytes(SubSeq(file'.data, start + 1, start + 4))
                    = 2 + Len(Utf8Encode(gmd.tables[i + 1][1].s))
                        + Len(write_table(OpenFile(<<>>), gmd.tables[i + 1][2].d).f.data)
             /\ file'.pos = Len(file'.data)
        /\ (pc = "to_bin_loop" /\ pc' = "to_bin_patch") =>
             /\ start' = Len(file.data)
             /\ SubSeq(file'.data, 1, Len(file.data)) = file.data
      ]_vars
\* two entries written and back-patched
C7_Witness ==
    pc = "to_bin_loop" /\ i = 2 /\ gmd.tables[2][2].d /= <<>>

RECURSIVE WellFormedTable(_)
\* a JSON table: every key carries a type prefix (a number key a number),
\* every value is a string, a number, a boolean or a table
WellFormedTable(j) ==
    /\ j.t = "jobj"
    /\ \A k \in 1..Len(j.d) :
           /\ \/ StartsWith(j.d[k][1], JSON_STRING_PREFIX)
              \/ /\ StartsWith(j.d[k][1], JSON_NUMBER_PREFIX)
                 /\ ParseFloat(RemovePrefix(j.d[k][1], JSON_NUMBER_PREFIX)).err = ""
           /\ j.d[k][2].t \in {"jstr", "jnum", "jbool", "jobj"}
           /\ j.d[k][2].t = "jobj" => WellFormedTable(j.d[k][2])
WellFormedJson(j) ==
    /\ j.t = "jobj"
    /\ \E k \in 1..Len(j.d) :
           j.d[k] = <<JSON_WORLD_VERSION_KEY, JNum(IntRepr(195))>>
    /\ \A k \in 1..Len(j.d) :
           j.d[k][1] /= JSON_WORLD_VERSION_KEY => WellFormedTable(j.d[k][2])
\* C8: from_json followed by to_bin succeeds on every well-formed JSON input.
C8_JsonNumbersAsDoubles ==
    (argv = <<>> /\ hist = <<"from_json", "to_bin">> /\ WellFormedJson(jsonFile)
       /\ pc \in {"idle", "raised"})
        => pc = "idle"

\* C9: when main has decoded its input, the directory of the output path
\* exists and the output path is no directory at the moment the writer opens
\* it, and main ends with the output file written at the output path.
C9_OutputDirectory ==
    (argv /= <<>> /\ gmd /= NoGmd) =>
        /\ pc \in Writers => (Parent(filepath) \in dirs /\ filepath \notin dirs)
        /\ pc \in {"done", "raised"} => (pc = "done" /\ filepath \in files)

\* C10: when a conversion function has finished, by returning or by raising,
\* the file it opened is closed.
C10_FilesClosed ==
    (hist /= <<>> /\ Outside) => handle /= "open"

=============================================================================
